---- MODULE Spec2Model ----
(***************************************************************************)
(* Model of the catalog search gateway, src/src/api/catalog.ts: the        *)
(* request handler (validation, normalisation, fingerprint, cache lookup), *)
(* the backend callback, the processor continuation, the attribute         *)
(* enrichment and the detached cache write.                                *)
(*                                                                         *)
(* JavaScript values are modelled as follows.                              *)
(*  - a request body (a JS object) is the sequence of its <<key, value>>   *)
(*    pairs in insertion order, the order JSON.stringify emits;            *)
(*  - a string that the code splits, searches or hashes is the sequence of *)
(*    its tokens ("/" is a token of its own);                              *)
(*  - a response body is a TLA+ record; a field is present iff it is in    *)
(*    the record's DOMAIN, and delete restricts the DOMAIN.                *)
(***************************************************************************)
EXTENDS Integers, Sequences, FiniteSets, TLC

(***************************************************************************)
(* Bounds of the model.                                                    *)
(***************************************************************************)
\* Number of request slots; each slot serves one request.
NumReq == 2

Reqs == 1..NumReq

(***************************************************************************)
(* JavaScript helpers.                                                     *)
(***************************************************************************)
\* The value of an absent property, variable or query parameter.
Undefined == [jsUndefined |-> TRUE]

\* null (the initial groupId, an absent cache entry).
Null == [jsNull |-> TRUE]

Has(o, k) == k \in DOMAIN o

Delete(o, k) == [f \in DOMAIN o \ {k} |-> o[f]]

Put(o, k, v) == [f \in DOMAIN o \cup {k} |-> IF f = k THEN v ELSE o[f]]

\* Ordered objects (request bodies).
ObjKeys(o) == {o[i][1] : i \in DOMAIN o}

ObjHas(o, k) == k \in ObjKeys(o)

ObjGet(o, k) == o[CHOOSE i \in DOMAIN o : o[i][1] = k][2]

IsKey(p, k) == p[1] = k

ObjDelete(o, k) == SelectSeq(o, LAMBDA p : ~IsKey(p, k))

\* obj[k] = v: an existing key keeps its position, a new key is appended.
ObjSet(o, k, v) ==
  IF ObjHas(o, k)
  THEN [i \in DOMAIN o |-> IF o[i][1] = k THEN <<k, v>> ELSE o[i]]
  ELSE Append(o, <<k, v>>)

(***************************************************************************)
(* JSON text: "{" k ":" v "," k ":" v "}" as a token sequence.             *)
(***************************************************************************)
RECURSIVE StringifyPairs(_)
StringifyPairs(o) ==
  IF o = <<>> THEN <<>>
  ELSE <<o[1][1], ":", o[1][2]>>
       \o (IF Len(o) > 1 THEN <<",">> ELSE <<>>)
       \o StringifyPairs(Tail(o))

\* JSON.stringify of an object: keys in insertion order, no sorting.
JSONStringify(o) == <<"{">> \o StringifyPairs(o) \o <<"}">>

\* Well-formed JSON object text: {} or { k : v (, k : v)* }.
JSONWellFormed(t) ==
  /\ Len(t) >= 2
  /\ t[1] = "{"
  /\ t[Len(t)] = "}"
  /\ \/ Len(t) = 2
     \/ /\ (Len(t) - 1) % 4 = 0
        /\ \A i \in 2..(Len(t) - 1) :
             /\ ((i - 2) % 4 = 1 => t[i] = ":")
             /\ ((i - 2) % 4 = 3 => t[i] = ",")
             /\ ((i - 2) % 4 \in {0, 2} => t[i] \notin {"{", "}", ":", ","})

RECURSIVE ParsePairs(_, _, _)
ParsePairs(t, i, acc) ==
  IF i + 2 > Len(t) - 1 THEN acc
  ELSE ParsePairs(t, i + 4, ObjSet(acc, t[i], t[i + 2]))

\* JSON.parse of well-formed text (a repeated key keeps its first position
\* and its last value).
JSONParse(t) == ParsePairs(t, 2, <<>>)

(***************************************************************************)
(* Configuration (consumed, not owned): config.elasticsearch.indices and   *)
(* the token secret are fixed; config.server.useOutputCache and the        *)
(* presence of the cache instance are chosen in Init.                      *)
(***************************************************************************)
\* config.elasticsearch.indices: the allow-list of index names.
Indices == {<<"myindex">>}

\* CacheEnabled as it would be if only the cache instance were tested.
CacheEnabledIgnoresFlag(cfg) == cfg.cache

\* config.server.useOutputCache && cache
CacheEnabled(cfg) == cfg.useOutputCache /\ cfg.cache

(***************************************************************************)
(* req.url and req.query.  An input URL is [path, query]; req.url is the   *)
(* path followed by the query string, req.query the parsed query string.   *)
(* The encoded JSON of the request parameter contains no "/" (it is        *)
(* percent-encoded), so the query string never adds a segment.             *)
(***************************************************************************)
QueryParams(q) ==
  (IF q.request # Undefined THEN <<(<<"request=">> \o q.request)>> ELSE <<>>)
  \o (IF q.request_format # "" THEN <<(<<"request_format=", q.request_format>>)>> ELSE <<>>)
  \o (IF q.response_format # "" THEN <<(<<"response_format=", q.response_format>>)>> ELSE <<>>)

RECURSIVE JoinParams(_, _)
JoinParams(ps, first) ==
  IF ps = <<>> THEN <<>>
  ELSE <<(IF first THEN "?" ELSE "&")>> \o ps[1] \o JoinParams(Tail(ps), FALSE)

\* req.url as a token sequence.
UrlString(u) == u.path \o JoinParams(QueryParams(u.query), TRUE)

\* String.prototype.split('/'): the segments between the separators.
RECURSIVE SplitFrom(_, _, _, _)
SplitFrom(s, i, cur, acc) ==
  IF i > Len(s) THEN Append(acc, cur)
  ELSE IF s[i] = "/" THEN SplitFrom(s, i + 1, <<>>, Append(acc, cur))
  ELSE SplitFrom(s, i + 1, Append(cur, s[i]), acc)

Split(s) == SplitFrom(s, 1, <<>>, <<>>)

\* String.prototype.indexOf, counted in tokens: the position (from 0) of the
\* first occurrence of tok in seg, -1 when there is none.
IndexOf(seg, tok) ==
  IF \E i \in DOMAIN seg : seg[i] = tok
  THEN (CHOOSE i \in DOMAIN seg : seg[i] = tok /\ \A j \in 1..(i - 1) : seg[j] # tok) - 1
  ELSE -1

(***************************************************************************)
(* Validation, lines 74-76 and 91-107.                                     *)
(***************************************************************************)
\* MethodSupported as it would be had the check been left out.
MethodSupportedAny(method) == TRUE

MethodSupported(method) == method \in {"GET", "POST", "OPTIONS"}

\* The error thrown by the URL validation, "" when the URL passes.
UrlError(url) ==
  LET urlSegments == Split(UrlString(url)) IN
  IF Len(urlSegments) < 2 THEN "No index name given in the URL"
  ELSE IF urlSegments[2] \notin Indices
       THEN "Invalid / inaccessible index name given in the URL"
  ELSE IF IndexOf(urlSegments[Len(urlSegments)], "_search") # 0
       THEN "Please do use following URL format"
  ELSE ""

IndexNameOf(url) == Split(UrlString(url))[2]

EntityTypeOf(url) ==
  LET urlSegments == Split(UrlString(url)) IN
  IF Len(urlSegments) > 2 THEN urlSegments[3] ELSE <<>>

ResponseFormatOf(url) ==
  IF url.query.response_format # "" THEN url.query.response_format ELSE "standard"

(***************************************************************************)
(* Group token and group identifier, lines 111-122.  jwt.decode is an      *)
(* external collaborator: a token decodes to a payload or decoding throws. *)
(***************************************************************************)
\* userToken.length > 10
MinTokenLength == 10

\* The length of a token string.
TokenLength(t) == IF t = "short" THEN 5 ELSE 24

\* jwt.decode(token, secret): the payload, Undefined when decoding throws.
JwtDecode(t) ==
  CASE t = "jwt.group1.sig" -> [group_id |-> "g1"]
    [] t = "jwt.group2.sig" -> [group_id |-> "g2"]
    [] t = "jwt.nogroup.sig" -> [sub |-> "u"]
    [] OTHER -> Undefined

UsesToken(body) ==
  /\ ObjHas(body, "groupToken")
  /\ TokenLength(ObjGet(body, "groupToken")) > MinTokenLength

\* jwt.decode throws for this body.
TokenError(body) == UsesToken(body) /\ JwtDecode(ObjGet(body, "groupToken")) = Undefined

\* groupId after lines 114-119 (null as "null").
GroupIdOf(body) ==
  IF UsesToken(body)
  THEN LET decodeToken == JwtDecode(ObjGet(body, "groupToken")) IN
       IF Has(decodeToken, "group_id") THEN decodeToken.group_id ELSE "null"
  ELSE IF ObjHas(body, "groupId") THEN ObjGet(body, "groupId")
  ELSE "null"

\* delete requestBody.groupToken; delete requestBody.groupId
StripGroup(body) == ObjDelete(ObjDelete(body, "groupToken"), "groupId")

(***************************************************************************)
(* Fingerprint, line 134.  sha3_224 is taken to be collision-free: the     *)
(* digest is identified with the hashed string.                            *)
(***************************************************************************)
Sha3(str) == <<"sha3_224">> \o str

ReqHash(requestBody, url) == Sha3(JSONStringify(requestBody) \o UrlString(url))

\* The key as it would be if the fingerprint were left out of it.
CacheKeyNoHash(hash) == <<"api:">>

\* 'api:' + reqHash, lines 13 and 187.
CacheKey(hash) == <<"api:">> \o hash

(***************************************************************************)
(* The search backend (external): what the request callback can receive.   *)
(***************************************************************************)
RawHits ==
  << [_source |-> [id |-> "7"], _score |-> 2],
     [_source |-> [id |-> "9"], _score |-> 1],
     [_source |-> [sku |-> "x"], _score |-> 1] >>

\* Aggregations as an ordered object: <<name, aggregation>> pairs.
RawAggregations ==
  << <<(<<"agg_terms_", "color">>), [buckets |-> <<[key |-> "red"], [key |-> "blue"]>>]>>,
     <<(<<"agg_terms_", "color", "_options">>), [buckets |-> <<[key |-> "blue"], [key |-> "green"]>>]>>,
     <<(<<"agg_range_", "price">>), [buckets |-> <<>>]>> >>

RawWithHits ==
  [took |-> 3, timed_out |-> FALSE, _shards |-> [total |-> 5],
   hits |-> [total |-> 3, max_score |-> 2, hits |-> RawHits]]

RawWithAggregations == Put(RawWithHits, "aggregations", RawAggregations)

\* A payload without a hit list (for instance one cut down by filter_path).
RawNoHitList == [took |-> 3, timed_out |-> FALSE, _shards |-> [total |-> 5]]

\* An error-shaped payload of the backend.
RawErrorPayload == [error |-> "parsing_exception", status |-> 400]

\* (_err, _resBody) pairs the callback can be called with; a transport
\* failure gives an error and an undefined body.
BackendResults ==
  { [err |-> TRUE, body |-> Undefined],
    [err |-> FALSE, body |-> RawErrorPayload],
    [err |-> FALSE, body |-> RawNoHitList],
    [err |-> FALSE, body |-> RawWithHits],
    [err |-> FALSE, body |-> RawWithAggregations] }

\* _resBody && _resBody.hits && _resBody.hits.hits
HasHitList(b) == b # Undefined /\ Has(b, "hits") /\ Has(b.hits, "hits")

(***************************************************************************)
(* Tags, lines 145-154: computed from the raw hits, before processing.     *)
(***************************************************************************)
\* entityType[0].toUpperCase()
TagPrefix(entityType) ==
  CASE entityType[1] = "product" -> "P"
    [] entityType[1] = "category" -> "C"
    [] entityType[1] = "_search" -> "_"
    [] OTHER -> "?"

RECURSIVE ItemTags(_, _)
ItemTags(items, prefix) ==
  IF items = <<>> THEN <<>>
  ELSE (IF Has(items[1]._source, "id") THEN <<(<<prefix, items[1]._source.id>>)>> ELSE <<>>)
       \o ItemTags(Tail(items), prefix)

TagsArray(cfg, entityType, rawItems) ==
  IF CacheEnabled(cfg)
  THEN <<entityType>> \o ItemTags(rawItems, TagPrefix(entityType))
  ELSE <<>>

(***************************************************************************)
(* Result processors (external).  The product processor personalises the   *)
(* items for the group identifier; the default one returns them as is.     *)
(***************************************************************************)
ProductProcess(items, groupId) ==
  [i \in DOMAIN items |->
     Put(items[i], "_source", Put(items[i]._source, "price_group", groupId))]

DefaultProcess(items) == items

IsProduct(entityType) == entityType = <<"product">>

\* The entity types that have a processor of their own, and the default one.
Registered == {<<"product">>, <<"default">>}

\* factory.getAdapter(name, ...): the registered processor, null when there
\* is none.
GetAdapter(name) == IF name \in Registered THEN [adapter |-> name[1]] ELSE Null

\* Lines 156-158 as they would be without the fallback of line 158.
ResultProcessorNoFallback(entityType) == GetAdapter(entityType)

\* Lines 156-158: the processor of the entity type, else the default one.
ResultProcessor(entityType) ==
  LET resultProcessor == GetAdapter(entityType) IN
  IF resultProcessor = Null THEN GetAdapter(<<"default">>) ELSE resultProcessor

\* resultProcessor.process(hits[, groupId]) of the processor chosen.
Process(resultProcessor, items, groupId) ==
  IF resultProcessor.adapter = "product"
  THEN ProductProcess(items, groupId) ELSE DefaultProcess(items)

\* Lines 159-160 and 172: only the product branch hands over the group id.
ProcessResult(entityType, items, groupId) ==
  Process(ResultProcessor(entityType), items,
          IF IsProduct(entityType) THEN groupId ELSE Undefined)

\* The identifier of the item a processor may leave out of its result.
HiddenId == "9"

\* The items a processor keeps when it leaves the hidden one out.
Visible(items) ==
  SelectSeq(items, LAMBDA item : ~(Has(item._source, "id") /\ item._source.id = HiddenId))

\* What the processor may resolve with: the result for all the items, or
\* for those it keeps.
ProcessorOutcomes(entityType, items, groupId) ==
  { ProcessResult(entityType, items, groupId),
    ProcessResult(entityType, Visible(items), groupId) }

(***************************************************************************)
(* getProductsAttributesMetadata, lines 29-51.                             *)
(***************************************************************************)
\* key.replace(/^(agg_terms_|agg_range_)|(_options)$/g, '')
AttributeCode(key) ==
  LET noPrefix == IF key # <<>> /\ key[1] \in {"agg_terms_", "agg_range_"}
                  THEN Tail(key) ELSE key
  IN IF noPrefix # <<>> /\ noPrefix[Len(noPrefix)] = "_options"
     THEN SubSeq(noPrefix, 1, Len(noPrefix) - 1) ELSE noPrefix

\* The element of a one-element set: an accumulator handed on through it is
\* computed once, whatever the number of times the next step reads it.
The(S) == CHOOSE x \in S : TRUE

BucketKeys(agg) == [i \in DOMAIN agg.buckets |-> agg.buckets[i].key]

\* The spread of line 42 as it would be without the Set.
KeepAll(xs, acc) == acc \o xs

\* [...new Set(xs)]: the distinct elements in order of first occurrence.
RECURSIVE Distinct(_, _)
Distinct(xs, acc) ==
  IF xs = <<>> THEN acc
  ELSE The({ Distinct(Tail(xs), next) :
               next \in {IF \E i \in DOMAIN acc : acc[i] = xs[1]
                         THEN acc ELSE Append(acc, xs[1])} })

RECURSIVE ReduceAggregations(_, _)
ReduceAggregations(aggs, acc) ==
  IF aggs = <<>> THEN acc
  ELSE LET key == aggs[1][1]
           attributeCode == AttributeCode(key)
           bucketsIds == BucketKeys(aggs[1][2])
           old == IF ObjHas(acc, attributeCode) THEN ObjGet(acc, attributeCode) ELSE <<>>
       IN The({ ReduceAggregations(rest, next) :
                  rest \in {Tail(aggs)},
                  next \in {ObjSet(acc, attributeCode, Distinct(old \o bucketsIds, <<>>))} })

HasBuckets(p) == Len(p[2].buckets) # 0

AttributeListParam(aggregations) ==
  The({ ReduceAggregations(withBuckets, <<>>) :
          withBuckets \in {SelectSeq(aggregations, HasBuckets)} })

\* AttributeService.list followed by AttributeService.transformToMetadata
\* (external): one metadata record per requested attribute code.
AttributesMetadata(param) ==
  [i \in DOMAIN param |-> [attribute_code |-> param[i][1], options |-> param[i][2]]]

(***************************************************************************)
(* _outputFormatter, lines 53-67.                                          *)
(***************************************************************************)
CompactHit(hit) == Put(hit._source, "_score", hit._score)

CompactBody(responseBody) ==
  LET b == Delete(Delete(Delete(responseBody, "took"), "timed_out"), "_shards") IN
  IF Has(b, "hits")
  THEN Put(Put(b, "total", b.hits.total),
           "hits", [i \in DOMAIN b.hits.hits |-> CompactHit(b.hits.hits[i])])
  ELSE b

OutputFormatter(responseBody, format) ==
  IF format = "compact" THEN CompactBody(responseBody) ELSE responseBody

(***************************************************************************)
(* Requests the model is driven with.                                      *)
(***************************************************************************)
Q == <<"query", "q1">>

S == <<"size", "s1">>

GroupId1 == <<"groupId", "g1">>

GroupId2 == <<"groupId", "g2">>

Token2 == <<"groupToken", "jwt.group2.sig">>

PathProduct == <<"/", "myindex", "/", "product", "/", "_search">>

PathCategory == <<"/", "myindex", "/", "category", "/", "_search">>

\* /myindex/product_search: the entity type and the suffix in one segment.
PathJoined == <<"/", "myindex", "/", "product", "_search">>

PathOtherIndex == <<"/", "secret", "/", "product", "/", "_search">>

PathNoSlash == <<"*">>

Query(request, requestFormat, responseFormat) ==
  [request |-> request, request_format |-> requestFormat, response_format |-> responseFormat]

\* A POST (or OPTIONS, PUT) request carrying its body in req.body.
BodyRequest(method, path, responseFormat, body) ==
  [method |-> method,
   url |-> [path |-> path, query |-> Query(Undefined, "", responseFormat)],
   body |-> body]

\* A GET request carrying its body, JSON-encoded, in the request parameter.
GetRequest(path, responseFormat, body) ==
  [method |-> "GET",
   url |-> [path |-> path, query |-> Query(JSONStringify(body), "", responseFormat)],
   body |-> <<>>]

CoreRequests ==
  { BodyRequest("POST", PathProduct, rf, base \o <<g>>) :
      rf \in {"", "compact"}, base \in {<<Q, S>>, <<S, Q>>}, g \in {GroupId1, Token2} }
  \cup
  { GetRequest(PathProduct, rf, <<Q, S, g>>) :
      rf \in {"", "compact"}, g \in {GroupId1, Token2} }

EdgeRequests ==
  { BodyRequest("PUT", PathProduct, "", <<Q, S, GroupId1>>),
    BodyRequest("OPTIONS", PathProduct, "", <<Q, S, GroupId1>>),
    BodyRequest("POST", PathOtherIndex, "", <<Q, S, GroupId1>>),
    BodyRequest("POST", PathNoSlash, "", <<Q, S, GroupId1>>),
    BodyRequest("POST", PathCategory, "compact", <<Q, S, GroupId1>>),
    BodyRequest("POST", PathProduct, "", <<Q, S>>),
    BodyRequest("POST", PathProduct, "", <<Q, S, <<"groupToken", "short">>, GroupId2>>),
    BodyRequest("POST", PathProduct, "", <<Q, S, <<"groupToken", "jwt.nogroup.sig">>, GroupId2>>),
    BodyRequest("POST", PathProduct, "", <<Q, S, <<"groupToken", "jwt.forged.sig">>>>),
    GetRequest(PathJoined, "compact", <<Q, S, Token2>>),
    BodyRequest("POST", PathJoined, "", <<Q, S, GroupId1>>),
    [method |-> "GET",
     url |-> [path |-> PathProduct, query |-> Query(<<"{", "query">>, "", "")],
     body |-> <<>>],
    [method |-> "POST",
     url |-> [path |-> PathProduct, query |-> Query(Undefined, "search-query", "")],
     body |-> <<Q, S, GroupId1>>],
    [method |-> "POST",
     url |-> [path |-> PathOtherIndex, query |-> Query(Undefined, "search-query", "")],
     body |-> <<Q, S, GroupId1>>] }

RequestInputs == CoreRequests \cup EdgeRequests

(***************************************************************************)
(* The handler up to its first suspension, lines 69-202, as a function of  *)
(* the configuration and the request.                                      *)
(***************************************************************************)
\* elasticsearch.buildQueryBodyFromSearchQuery (external): the backend query
\* built from the search query; only the search fields take part.
BuildQueryBody(body) ==
  <<(<<"query", "translated">>)>> \o SelectSeq(body, LAMBDA p : IsKey(p, "size"))

NoLocals ==
  [requestBody |-> <<>>, groupId |-> "null", responseFormat |-> "standard",
   indexName |-> <<>>, entityType |-> <<>>, reqHash |-> <<>>,
   resBody |-> Undefined, tagsArray |-> <<>>]

Thrown(msg) == [kind |-> "thrown", error |-> msg]

Returned == [kind |-> "returned", error |-> ""]

Pending == [kind |-> "pending", error |-> ""]

\* Lines 74-88: the method check and the body of the request.  pc "translate"
\* is the await of line 87.
Entry(rq) ==
  IF ~MethodSupported(rq.method)
  THEN [pc |-> "end", outcome |-> Thrown("request method is not supported"), body |-> <<>>]
  ELSE IF rq.method = "GET" /\ rq.url.query.request # Undefined
          /\ ~JSONWellFormed(rq.url.query.request)
  THEN [pc |-> "end", outcome |-> Thrown("SyntaxError"), body |-> <<>>]
  ELSE LET requestBody ==
             IF rq.method = "GET" /\ rq.url.query.request # Undefined
             THEN JSONParse(rq.url.query.request) ELSE rq.body
       IN IF rq.url.query.request_format = "search-query"
          THEN [pc |-> "translate", outcome |-> Pending, body |-> requestBody]
          ELSE [pc |-> "proceed", outcome |-> Pending, body |-> requestBody]

\* Lines 89-202 for the body `body`: validation of the URL, the group
\* identifier, the fingerprint, and the cache read or the backend call.
Proceed(cfg, rq, body) ==
  IF UrlError(rq.url) # ""
  THEN [pc |-> "end", outcome |-> Thrown(UrlError(rq.url)), loc |-> NoLocals]
  ELSE IF TokenError(body)
  THEN [pc |-> "end", outcome |-> Thrown("jwt.decode"), loc |-> NoLocals]
  ELSE LET requestBody == StripGroup(body) IN
       [pc |-> IF CacheEnabled(cfg) THEN "cacheGet" ELSE "backend",
        outcome |-> Returned,
        loc |-> [requestBody |-> requestBody,
                 groupId |-> GroupIdOf(body),
                 responseFormat |-> ResponseFormatOf(rq.url),
                 indexName |-> IndexNameOf(rq.url),
                 entityType |-> EntityTypeOf(rq.url),
                 reqHash |-> ReqHash(requestBody, rq.url),
                 resBody |-> Undefined,
                 tagsArray |-> <<>>]]

(***************************************************************************)
(* State.                                                                  *)
(***************************************************************************)
VARIABLES
  config,   \* [useOutputCache, cache]: the flag and the presence of the cache instance
  store,    \* the cache store: key -> [value, tags]
  req,      \* req[r]: the request served in slot r
  pc,       \* pc[r]: "idle", the suspension the request waits at, or "end"
  loc,      \* loc[r]: the handler's locals (requestBody, groupId, reqHash, _resBody, ...)
  res,      \* res[r]: the response object: [sent, status, header, body]
  outcome,  \* outcome[r]: what the handler's promise gave its caller
  calls,    \* calls[r]: calls made for r: [get, set, backend, process, attr]
  errlog,   \* errlog[r]: what console.error logged for r
  cset,     \* cset[r]: the cache.set call of r: [status, key, tags, value]
  hist,     \* hist[r]: what the collaborators answered r, and who was done before it
  aggregations,        \* body.aggregations handed to getProductsAttributesMetadata alone
  attributeListParam   \* [param |-> what it computed from them], Undefined before

vars == <<config, store, req, pc, loc, res, outcome, calls, errlog, cset, hist,
          aggregations, attributeListParam>>

NoRequest == BodyRequest("", <<>>, "", <<>>)

NoResponse == [sent |-> 0, status |-> 200, header |-> "", body |-> Undefined]

NoCalls == [get |-> 0, set |-> 0, backend |-> 0, process |-> 0, attr |-> 0]

NoSet == [status |-> "none", key |-> <<>>, tags |-> <<>>, value |-> Undefined]

NoHist ==
  [get |-> "", backend |-> Undefined, processor |-> Undefined, process |-> "",
   result |-> <<>>, attr |-> "", prior |-> {}]

\* No request has arrived.
Idle ==
  /\ store = <<>>
  /\ req = [r \in Reqs |-> NoRequest]
  /\ pc = [r \in Reqs |-> "idle"]
  /\ loc = [r \in Reqs |-> NoLocals]
  /\ res = [r \in Reqs |-> NoResponse]
  /\ outcome = [r \in Reqs |-> Pending]
  /\ calls = [r \in Reqs |-> NoCalls]
  /\ errlog = [r \in Reqs |-> {}]
  /\ cset = [r \in Reqs |-> NoSet]
  /\ hist = [r \in Reqs |-> NoHist]

Init ==
  /\ config \in [useOutputCache : BOOLEAN, cache : BOOLEAN]
  /\ Idle
  /\ aggregations = <<>>
  /\ attributeListParam = Undefined

\* res.json(body)
Json(response, body) == [response EXCEPT !.sent = @ + 1, !.body = body]

\* cache.get(key) of the store: the value, null when there is none.
CacheGet(key) == IF key \in DOMAIN store THEN store[key].value ELSE Null

\* The requests whose response and cache write are both behind them.
Done == {q \in Reqs : pc[q] = "end" /\ cset[q].status # "pending"}

(***************************************************************************)
(* The request arrives: lines 69-202 up to the first suspension.  Slots    *)
(* are taken in order.                                                     *)
(***************************************************************************)
Started(r, rq, p) ==
  /\ req' = [req EXCEPT ![r] = rq]
  /\ pc' = [pc EXCEPT ![r] = p.pc]
  /\ outcome' = [outcome EXCEPT ![r] = p.outcome]
  /\ loc' = [loc EXCEPT ![r] = p.loc]
  /\ calls' = [calls EXCEPT ![r].get = IF p.pc = "cacheGet" THEN 1 ELSE 0,
                            ![r].backend = IF p.pc = "backend" THEN 1 ELSE 0]

ReceiveFrom(r, inputs) ==
  /\ pc[r] = "idle"
  /\ \A q \in Reqs : q < r => pc[q] # "idle"
  /\ \E rq \in inputs :
       LET e == Entry(rq) IN
       /\ IF e.pc = "proceed"
          THEN Started(r, rq, Proceed(config, rq, e.body))
          ELSE Started(r, rq, [pc |-> e.pc, outcome |-> e.outcome,
                               loc |-> [NoLocals EXCEPT !.requestBody = e.body]])
       /\ hist' = [hist EXCEPT ![r].prior = Done]
  /\ UNCHANGED <<config, store, res, errlog, cset, aggregations, attributeListParam>>

Receive(r) == ReceiveFrom(r, RequestInputs)

\* The await of line 87 returns the translated body.
TranslateResolve(r) ==
  /\ pc[r] = "translate"
  /\ Started(r, req[r], Proceed(config, req[r], BuildQueryBody(loc[r].requestBody)))
  /\ UNCHANGED <<config, store, res, errlog, cset, hist, aggregations, attributeListParam>>

\* The await of line 87 throws.
TranslateReject(r) ==
  /\ pc[r] = "translate"
  /\ pc' = [pc EXCEPT ![r] = "end"]
  /\ outcome' = [outcome EXCEPT ![r] = Thrown("buildQueryBodyFromSearchQuery")]
  /\ UNCHANGED <<config, store, req, loc, res, calls, errlog, cset, hist, aggregations, attributeListParam>>

(***************************************************************************)
(* cache.get settles, lines 186-199.                                       *)
(***************************************************************************)
\* The header as it would be if both branches marked the response a miss.
CacheStatusAlwaysMiss(output) == "Miss"

\* res.setHeader('X-VS-Cache', ...), lines 190 and 195.
CacheStatus(output) == IF output # Null THEN "Hit" ELSE "Miss"

CacheGetResolve(r) ==
  /\ pc[r] = "cacheGet"
  /\ LET output == CacheGet(CacheKey(loc[r].reqHash)) IN
     IF output # Null
     THEN /\ res' = [res EXCEPT ![r] = Json([@ EXCEPT !.header = CacheStatus(output)], output)]
          /\ pc' = [pc EXCEPT ![r] = "end"]
          /\ hist' = [hist EXCEPT ![r].get = "hit"]
          /\ UNCHANGED calls
     ELSE /\ res' = [res EXCEPT ![r].header = CacheStatus(output)]
          /\ pc' = [pc EXCEPT ![r] = "backend"]
          /\ hist' = [hist EXCEPT ![r].get = "miss"]
          /\ calls' = [calls EXCEPT ![r].backend = @ + 1]
  /\ UNCHANGED <<config, store, req, loc, outcome, errlog, cset, aggregations, attributeListParam>>

\* .catch(err => console.error(err)), line 199.
CacheGetReject(r) ==
  /\ pc[r] = "cacheGet"
  /\ pc' = [pc EXCEPT ![r] = "end"]
  /\ errlog' = [errlog EXCEPT ![r] = @ \cup {"cache.get"}]
  /\ hist' = [hist EXCEPT ![r].get = "rejected"]
  /\ UNCHANGED <<config, store, req, loc, res, outcome, calls, cset, aggregations, attributeListParam>>

(***************************************************************************)
(* The request callback, lines 142-183.  _err is not read.                 *)
(***************************************************************************)
BackendCallback(r) ==
  /\ pc[r] = "backend"
  /\ \E result \in BackendResults :
       /\ IF HasHitList(result.body)
          THEN /\ hist' = [hist EXCEPT ![r].backend = result,
                                       ![r].processor = ResultProcessor(loc[r].entityType)]
               /\ loc' = [loc EXCEPT
                           ![r].resBody = result.body,
                           ![r].tagsArray =
                             TagsArray(config, loc[r].entityType, result.body.hits.hits)]
               /\ pc' = [pc EXCEPT ![r] = "process"]
               /\ calls' = [calls EXCEPT ![r].process = @ + 1]
               /\ UNCHANGED res
          ELSE /\ hist' = [hist EXCEPT ![r].backend = result]
               /\ res' = [res EXCEPT ![r] = Json(@, result.body)]
               /\ pc' = [pc EXCEPT ![r] = "end"]
               /\ UNCHANGED <<loc, calls>>
  /\ UNCHANGED <<config, store, req, outcome, errlog, cset, aggregations, attributeListParam>>

(***************************************************************************)
(* _cacheStorageHandler, lines 11-21: cache.set is called and not awaited. *)
(* The store is handed the response object itself, which the handler goes  *)
(* on changing: the store serialises it either during the call (value is   *)
(* the snapshot) or at some later moment before it settles (value is       *)
(* Undefined until then).                                                  *)
(***************************************************************************)
\* _cacheStorageHandler as it would be without the test of line 12.
CacheStorageHandlerUnguarded(cfg, result, hash, tags, snapshot) ==
  [status |-> "pending", key |-> CacheKey(hash), tags |-> tags,
   value |-> IF snapshot THEN result ELSE Undefined]

CacheStorageHandler(cfg, result, hash, tags, snapshot) ==
  IF CacheEnabled(cfg)
  THEN [status |-> "pending", key |-> CacheKey(hash), tags |-> tags,
        value |-> IF snapshot THEN result ELSE Undefined]
  ELSE NoSet

\* The catch of lines 17-19 as it would be if it answered the request with an
\* error instead of only logging.
CacheSetCatchResponds(response) ==
  IF response.sent = 0
  THEN [response EXCEPT !.sent = 1, !.status = 500, !.body = [error |-> "cache"]]
  ELSE response

\* The catch of lines 17-19: the error is logged, the response is not touched.
CacheSetCatch(response) == response

(***************************************************************************)
(* process(...).then(...), lines 160-170 and 172-178.                      *)
(***************************************************************************)
\* Lines 161-162 and 173-174: the processed hits replace the raw ones.
WithProcessedHits(resBody, result) == Put(resBody, "hits", Put(resBody.hits, "hits", result))

\* The test of line 163 as it would be if it were made for every entity type.
EnrichesAnyEntity(entityType, resBody) == Has(resBody, "aggregations")

\* Line 163: the product branch awaits the attribute lookup.
Enriches(entityType, resBody) == IsProduct(entityType) /\ Has(resBody, "aggregations")

ProcessResolve(r) ==
  /\ pc[r] = "process"
  /\ \E result \in ProcessorOutcomes(loc[r].entityType, loc[r].resBody.hits.hits,
                                      loc[r].groupId) :
     LET resBody == WithProcessedHits(loc[r].resBody, result)
     IN /\ hist' = [hist EXCEPT ![r].process = "ok", ![r].result = result]
        /\ \E snapshot \in BOOLEAN :
             /\ CacheEnabled(config) \/ snapshot
             /\ cset' = [cset EXCEPT ![r] =
                          CacheStorageHandler(config, resBody, loc[r].reqHash,
                                              loc[r].tagsArray, snapshot)]
        /\ calls' = [calls EXCEPT
                      ![r].set = @ + (IF CacheEnabled(config) THEN 1 ELSE 0),
                      ![r].attr = @ + (IF Enriches(loc[r].entityType, resBody) THEN 1 ELSE 0)]
        /\ IF Enriches(loc[r].entityType, resBody)
           THEN /\ loc' = [loc EXCEPT ![r].resBody = resBody]
                /\ pc' = [pc EXCEPT ![r] = "attrList"]
                /\ UNCHANGED res
           ELSE LET out == OutputFormatter(resBody, loc[r].responseFormat) IN
                /\ loc' = [loc EXCEPT ![r].resBody = out]
                /\ res' = [res EXCEPT ![r] = Json(@, out)]
                /\ pc' = [pc EXCEPT ![r] = "end"]
  /\ UNCHANGED <<config, store, req, outcome, errlog, aggregations, attributeListParam>>

\* .catch((err) => { console.error(err) }), lines 168-170 and 176-178.
ProcessReject(r) ==
  /\ pc[r] = "process"
  /\ pc' = [pc EXCEPT ![r] = "end"]
  /\ errlog' = [errlog EXCEPT ![r] = @ \cup {"process"}]
  /\ hist' = [hist EXCEPT ![r].process = "failed"]
  /\ UNCHANGED <<config, store, req, loc, res, outcome, calls, cset, aggregations, attributeListParam>>

(***************************************************************************)
(* The await of line 164 settles, lines 164-167.                           *)
(***************************************************************************)
\* The continuation of line 164 as it would be without the res.json of line 167.
AttrListResolveSilent(r) ==
  /\ pc[r] = "attrList"
  /\ pc' = [pc EXCEPT ![r] = "end"]
  /\ hist' = [hist EXCEPT ![r].attr = "ok"]
  /\ UNCHANGED <<config, store, req, loc, res, outcome, calls, errlog, cset,
                 aggregations, attributeListParam>>

AttrListResolve(r) ==
  /\ pc[r] = "attrList"
  /\ \E attributesMetadata \in
          {AttributesMetadata(AttributeListParam(loc[r].resBody.aggregations))} :
       LET out == OutputFormatter(Put(loc[r].resBody, "attribute_metadata",
                                      attributesMetadata),
                                  loc[r].responseFormat)
       IN /\ loc' = [loc EXCEPT ![r].resBody = out]
          /\ res' = [res EXCEPT ![r] = Json(@, out)]
  /\ pc' = [pc EXCEPT ![r] = "end"]
  /\ hist' = [hist EXCEPT ![r].attr = "ok"]
  /\ UNCHANGED <<config, store, req, outcome, calls, errlog, cset, aggregations, attributeListParam>>

\* The lookup throws inside the async callback: the catch of lines 168-170.
AttrListReject(r) ==
  /\ pc[r] = "attrList"
  /\ pc' = [pc EXCEPT ![r] = "end"]
  /\ errlog' = [errlog EXCEPT ![r] = @ \cup {"attribute list"}]
  /\ hist' = [hist EXCEPT ![r].attr = "failed"]
  /\ UNCHANGED <<config, store, req, loc, res, outcome, calls, cset, aggregations, attributeListParam>>

(***************************************************************************)
(* cache.set settles.                                                      *)
(***************************************************************************)
CacheSetResolve(r) ==
  /\ cset[r].status = "pending"
  /\ LET value == IF cset[r].value # Undefined THEN cset[r].value ELSE loc[r].resBody IN
     /\ store' = Put(store, cset[r].key, [value |-> value, tags |-> cset[r].tags])
     /\ cset' = [cset EXCEPT ![r].status = "ok", ![r].value = value]
  /\ UNCHANGED <<config, req, pc, loc, res, outcome, calls, errlog, hist, aggregations, attributeListParam>>

CacheSetReject(r) ==
  /\ cset[r].status = "pending"
  /\ cset' = [cset EXCEPT ![r].status = "failed"]
  /\ errlog' = [errlog EXCEPT ![r] = @ \cup {"cache.set"}]
  /\ res' = [res EXCEPT ![r] = CacheSetCatch(@)]
  /\ UNCHANGED <<config, store, req, pc, loc, outcome, calls, hist, aggregations, attributeListParam>>

Next ==
  \E r \in Reqs :
    \/ Receive(r)
    \/ TranslateResolve(r)
    \/ TranslateReject(r)
    \/ CacheGetResolve(r)
    \/ CacheGetReject(r)
    \/ BackendCallback(r)
    \/ ProcessResolve(r)
    \/ ProcessReject(r)
    \/ AttrListResolve(r)
    \/ AttrListReject(r)
    \/ CacheSetResolve(r)
    \/ CacheSetReject(r)

Spec == Init /\ [][Next]_vars

(***************************************************************************)
(* The handler under fairness: a collaborator that was called settles, one *)
(* way or the other, and the event loop runs the continuation.  cache.set  *)
(* may stay pending for ever.  The requests are those of LiveInputs.       *)
(***************************************************************************)
LiveInputs ==
  { BodyRequest("POST", PathProduct, "", <<Q, S, GroupId1>>),
    BodyRequest("POST", PathCategory, "compact", <<Q, S, GroupId1>>),
    [method |-> "POST",
     url |-> [path |-> PathProduct, query |-> Query(Undefined, "search-query", "")],
     body |-> <<Q, S, GroupId1>>] }

FairNext ==
  \E r \in Reqs :
    \/ ReceiveFrom(r, LiveInputs)
    \/ TranslateResolve(r)
    \/ TranslateReject(r)
    \/ CacheGetResolve(r)
    \/ CacheGetReject(r)
    \/ BackendCallback(r)
    \/ ProcessResolve(r)
    \/ ProcessReject(r)
    \/ AttrListResolve(r)
    \/ AttrListReject(r)
    \/ CacheSetResolve(r)
    \/ CacheSetReject(r)

\* The continuations of request r: it waits at one suspension at a time.
Continue(r) ==
  \/ TranslateResolve(r) \/ TranslateReject(r)
  \/ CacheGetResolve(r) \/ CacheGetReject(r)
  \/ BackendCallback(r)
  \/ ProcessResolve(r) \/ ProcessReject(r)
  \/ AttrListResolve(r) \/ AttrListReject(r)

FairSpec == Init /\ [][FairNext]_vars /\ \A r \in Reqs : WF_vars(Continue(r))

(***************************************************************************)
(* getProductsAttributesMetadata on its own, lines 29-46: the parameter of *)
(* AttributeService.list for any aggregations of up to MaxAggs names.      *)
(***************************************************************************)
MaxAggs == 3

AggNames ==
  { <<"agg_terms_", "color">>, <<"agg_terms_", "color", "_options">>,
    <<"agg_range_", "color">>, <<"agg_range_", "price">> }

BucketLists ==
  { <<>>,
    <<[key |-> "red"], [key |-> "blue"]>>,
    <<[key |-> "blue"], [key |-> "green"]>>,
    <<[key |-> "red"], [key |-> "red"]>> }

\* Objects of at most MaxAggs aggregations: the names of an object differ.
AggregationInputs ==
  UNION { { a \in [1..n -> {<<name, [buckets |-> b]>> : name \in AggNames, b \in BucketLists}] :
              \A i, j \in 1..n : i # j => a[i][1] # a[j][1] } : n \in 0..MaxAggs }

MergeInit ==
  /\ config = [useOutputCache |-> FALSE, cache |-> FALSE]
  /\ Idle
  /\ aggregations \in AggregationInputs
  /\ attributeListParam = Undefined

\* Lines 30-46.
GetProductsAttributesMetadata ==
  /\ attributeListParam = Undefined
  /\ attributeListParam' = [param |-> AttributeListParam(aggregations)]
  /\ UNCHANGED <<config, store, req, pc, loc, res, outcome, calls, errlog, cset, hist,
                 aggregations>>

MergeNext == GetProductsAttributesMetadata

MergeSpec == MergeInit /\ [][MergeNext]_vars

(***************************************************************************)
(* Vocabulary of the claims.                                               *)
(***************************************************************************)
\* The body a request carries: req.body, or for a GET the request parameter.
CarriedBody(rq) ==
  IF rq.method = "GET" /\ rq.url.query.request # Undefined
  THEN JSONParse(rq.url.query.request) ELSE rq.body

\* The handler got as far as the fingerprint (it returned to its caller).
Normalized(r) == outcome[r].kind = "returned"

\* The caller of request r was told of a failure: the handler threw, or an
\* error response was sent.
FailureSignalled(r) ==
  \/ outcome[r].kind = "thrown"
  \/ res[r].sent >= 1 /\ res[r].status >= 400

\* The request fails validation: the method, the index name or the final
\* path segment is not acceptable.
FailsValidation(rq) ==
  LET segs == Split(UrlString(rq.url)) IN
  \/ rq.method \notin {"GET", "POST", "OPTIONS"}
  \/ Len(segs) < 2
  \/ segs[2] # <<"myindex">>
  \/ segs[Len(segs)] = <<>>
  \/ segs[Len(segs)][1] # "_search"

(***************************************************************************)
(* C1: a request that fails validation is never served: no cache get, no   *)
(* cache set and no backend call is made for it, no response is sent, it   *)
(* waits at most for the query translation, and when its handler ends it   *)
(* has thrown an error.                                                    *)
(***************************************************************************)
C1_ValidationFailsFast ==
  \A r \in Reqs :
    pc[r] # "idle" /\ FailsValidation(req[r]) =>
      /\ calls[r].get = 0 /\ calls[r].set = 0 /\ calls[r].backend = 0
      /\ res[r].sent = 0
      /\ pc[r] \in {"translate", "end"}
      /\ (pc[r] = "end" => outcome[r].kind = "thrown")

\* Witness of C1: a PUT request and a request for an index that is not
\* allowed (the latter after its query translation) have both been rejected.
C1_Witness ==
  \E a, b \in Reqs :
    /\ req[a].method = "PUT" /\ pc[a] = "end" /\ outcome[a].kind = "thrown"
    /\ req[b].method = "POST" /\ req[b].url.path = PathOtherIndex
    /\ req[b].url.query.request_format = "search-query"
    /\ pc[b] = "end"
    /\ outcome[b] = Thrown("Invalid / inaccessible index name given in the URL")

(***************************************************************************)
(* C2: when cache.get rejects, the backend is called as for a miss, and    *)
(* the request does not end without a response.                            *)
(***************************************************************************)
C2_ReadFailureIsMiss ==
  \A r \in Reqs :
    hist[r].get = "rejected" =>
      /\ calls[r].backend = 1
      /\ (pc[r] = "end" => res[r].sent = 1)

(***************************************************************************)
(* C3: the response does not wait for cache.set and does not depend on its *)
(* outcome: a request whose processor (and attribute lookup) succeeded has *)
(* its response sent with status 200 whether its cache.set is pending, has *)
(* succeeded or has failed, and two requests that are the same request and *)
(* got the same answers from the cache read, the backend, the processor    *)
(* and the attribute service end with the same response, body included,    *)
(* whatever their cache.set calls did.                                     *)
(***************************************************************************)
SameRun(a, b) ==
  /\ req[a] = req[b]
  /\ hist[a].get = hist[b].get
  /\ hist[a].backend = hist[b].backend
  /\ hist[a].process = hist[b].process
  /\ hist[a].result = hist[b].result
  /\ hist[a].attr = hist[b].attr

C3_WriteIsFireAndForget ==
  /\ \A r \in Reqs :
       calls[r].set = 1 /\ pc[r] = "end" /\ hist[r].attr # "failed" =>
         res[r].sent = 1 /\ res[r].status = 200
  /\ \A a, b \in Reqs :
       /\ calls[a].set = 1 /\ calls[b].set = 1
       /\ pc[a] = "end" /\ pc[b] = "end"
       /\ SameRun(a, b)
       => res[a] = res[b]

\* Witness of C3: two runs of the same request that differ only in their
\* cache.set (one failed, one still pending) have both been answered.
C3_Witness ==
  \E a, b \in Reqs :
    /\ SameRun(a, b)
    /\ pc[a] = "end" /\ pc[b] = "end"
    /\ cset[a].status = "failed" /\ cset[b].status = "pending"
    /\ hist[a].attr = "ok"
    /\ res[a].sent = 1 /\ res[b].sent = 1

(***************************************************************************)
(* C4: two requests (GET or POST) that differ only in the groupToken or    *)
(* groupId they carry have the same fingerprint, the same cache key and    *)
(* forward the same body to the backend.                                   *)
(***************************************************************************)
WithoutGroup(body) == ObjDelete(ObjDelete(body, "groupToken"), "groupId")

DifferOnlyInGroup(x, y) ==
  /\ x.method = y.method
  /\ x.method \in {"GET", "POST"}
  /\ x.url.path = y.url.path
  /\ x.url.query.request_format = y.url.query.request_format
  /\ x.url.query.response_format = y.url.query.response_format
  /\ WithoutGroup(CarriedBody(x)) = WithoutGroup(CarriedBody(y))

C4_GroupNeverLeaks ==
  \A a, b \in Reqs :
    Normalized(a) /\ Normalized(b) /\ DifferOnlyInGroup(req[a], req[b]) =>
      /\ loc[a].reqHash = loc[b].reqHash
      /\ CacheKey(loc[a].reqHash) = CacheKey(loc[b].reqHash)
      /\ loc[a].requestBody = loc[b].requestBody

(***************************************************************************)
(* C5: two requests with the same path whose normalized bodies are the     *)
(* same mapping of keys to values, in whatever order the keys appear, have *)
(* the same fingerprint.                                                   *)
(***************************************************************************)
SameMapping(o1, o2) == {o1[i] : i \in DOMAIN o1} = {o2[i] : i \in DOMAIN o2}

C5_FingerprintCanonical ==
  \A a, b \in Reqs :
    /\ Normalized(a) /\ Normalized(b)
    /\ UrlString(req[a].url) = UrlString(req[b].url)
    /\ SameMapping(loc[a].requestBody, loc[b].requestBody)
    => loc[a].reqHash = loc[b].reqHash

(***************************************************************************)
(* C6: with output caching disabled, the GET request of the claim is       *)
(* accepted, performs no cache get and no cache set, and calls the backend *)
(* exactly once.  The request carries a valid group token in its request   *)
(* parameter and asks for the compact format.                              *)
(***************************************************************************)
AcceptedUncached(rq) ==
  \A r \in Reqs :
    req[r] = rq /\ ~config.useOutputCache =>
      /\ outcome[r].kind = "returned"
      /\ calls[r].get = 0 /\ calls[r].set = 0
      /\ calls[r].backend = 1

C7_CachedAnswerIsTheSame ==
  \A a, b \in Reqs :
    /\ a \in hist[b].prior
    /\ cset[a].status = "ok" /\ hist[a].get = "miss" /\ res[a].sent = 1
    /\ Normalized(b)
    /\ loc[b].requestBody = loc[a].requestBody
    /\ UrlString(req[b].url) = UrlString(req[a].url)
    /\ hist[b].get \in {"hit", "miss"}
    => /\ hist[b].get = "hit"
       /\ calls[b].backend = 0
       /\ res[b].sent = 1
       /\ res[b].body = res[a].body

(***************************************************************************)
(* C8: when the attribute lookup fails, the caller is told of a failure.   *)
(***************************************************************************)
C8_EnrichmentFailurePropagates ==
  \A r \in Reqs : hist[r].attr = "failed" => FailureSignalled(r)

(***************************************************************************)
(* C9: when the backend call fails in transport, the caller is told of a   *)
(* failure, no normal response is sent, and the backend is not called a    *)
(* second time.                                                            *)
(***************************************************************************)
BackendFailed(r) == hist[r].backend # Undefined /\ hist[r].backend.err

C9_BackendFailurePropagates ==
  \A r \in Reqs :
    BackendFailed(r) =>
      /\ FailureSignalled(r)
      /\ ~(res[r].sent >= 1 /\ res[r].status = 200)
      /\ calls[r].backend = 1

(***************************************************************************)
(* C10: every response sent to a request asking for the compact format     *)
(* contains none of took, timed_out and max_score, and when it has hits    *)
(* its total is hits.total of the backend's answer.                        *)
(***************************************************************************)
\* The body carries its hits in the flattened form of the compact format.
Flattened(b) == Has(b, "total")

HasMaxScore(b) ==
  \/ Has(b, "max_score")
  \/ Has(b, "hits") /\ ~Flattened(b) /\ Has(b.hits, "max_score")

C10_CompactIsCompact ==
  \A r \in Reqs :
    res[r].sent >= 1 /\ req[r].url.query.response_format = "compact" =>
      LET b == res[r].body IN
      /\ ~Has(b, "took") /\ ~Has(b, "timed_out") /\ ~HasMaxScore(b)
      /\ (Has(b, "hits") => Flattened(b) /\ b.total = RawWithHits.hits.total)

(***************************************************************************)
(* C11: with output caching enabled (the flag is set and there is a cache  *)
(* instance), every response that is sent carries the X-VS-Cache header,   *)
(* and the header is Hit exactly when the body was served from the cache   *)
(* and no backend call, no processor call and no cache.set was made for    *)
(* the request; it is Miss otherwise.                                      *)
(***************************************************************************)
C11_CacheStatusTellsTheSource ==
  \A r \in Reqs :
    config.useOutputCache /\ config.cache /\ res[r].sent >= 1 =>
      /\ res[r].header \in {"Hit", "Miss"}
      /\ res[r].header = "Hit" <=>
           /\ hist[r].get = "hit"
           /\ calls[r].backend = 0 /\ calls[r].process = 0 /\ calls[r].set = 0
           /\ cset[r].status = "none"
      /\ res[r].header = "Miss" <=>
           hist[r].get = "miss" /\ calls[r].backend = 1

\* Witness of C11: one request was answered from the backend and marked Miss,
\* a later one was answered from the cache and marked Hit.
C11_Witness ==
  \E a, b \in Reqs :
    /\ config.useOutputCache /\ config.cache
    /\ res[a].sent = 1 /\ res[a].header = "Miss" /\ calls[a].backend = 1
    /\ res[b].sent = 1 /\ res[b].header = "Hit" /\ hist[b].get = "hit"
    /\ calls[b].backend = 0

(***************************************************************************)
(* C12: the tags handed to cache.set are those of the processed items: the *)
(* entity type, followed by the upper-case first character of the entity   *)
(* type joined to the id of every item of the processor's result that has  *)
(* an id; an item that is not in the processor's result gives no tag.      *)
(***************************************************************************)
C12_TagsOfProcessedItems ==
  \A r \in Reqs :
    cset[r].status # "none" =>
      cset[r].tags = <<loc[r].entityType>>
                       \o ItemTags(hist[r].result, TagPrefix(loc[r].entityType))

(***************************************************************************)
(* C13: for a product request whose backend response has aggregations,     *)
(* cache.set is called only after the attribute lookup has completed, and  *)
(* the value stored is the body that is sent, attribute metadata included. *)
(***************************************************************************)
C13_StoredAfterEnrichment ==
  \A r \in Reqs :
    /\ loc[r].entityType = <<"product">>
    /\ hist[r].backend # Undefined /\ Has(hist[r].backend.body, "aggregations")
    => /\ cset[r].status # "none" => hist[r].attr = "ok"
       /\ cset[r].status = "ok" =>
            /\ Has(cset[r].value, "attribute_metadata")
            /\ cset[r].value = res[r].body

(***************************************************************************)
(* C14: cache.set is called for a request at most once, and only if output *)
(* caching is enabled, the cache read of the request returned nothing, the *)
(* backend response had a hit list and the processor resolved.  A response *)
(* without a hit list or a failed processor leaves the store as it was:    *)
(* every entry of the store was written by such a call.                    *)
(***************************************************************************)
C14_WriteOnlyAfterProcessing ==
  /\ \A r \in Reqs :
       /\ calls[r].set >= 1 \/ cset[r].status # "none" =>
            /\ calls[r].set = 1
            /\ config.useOutputCache /\ config.cache
            /\ hist[r].get = "miss"
            /\ HasHitList(hist[r].backend.body)
            /\ hist[r].process = "ok"
       /\ hist[r].process = "failed" => cset[r].status = "none"
       /\ hist[r].backend # Undefined /\ ~HasHitList(hist[r].backend.body) =>
            cset[r].status = "none"
  /\ \A k \in DOMAIN store :
       \E r \in Reqs : cset[r].status = "ok" /\ cset[r].key = k /\ hist[r].process = "ok"

\* Witness of C14: with caching enabled, one request's processor failed and
\* nothing was written for it, another request's cache.set filled the store.
C14_Witness ==
  \E a, b \in Reqs :
    /\ config.useOutputCache /\ config.cache
    /\ hist[a].get = "miss" /\ hist[a].process = "failed"
    /\ pc[a] = "end" /\ cset[a].status = "none"
    /\ hist[b].get = "miss" /\ hist[b].process = "ok"
    /\ cset[b].status = "ok" /\ cset[b].key \in DOMAIN store

(***************************************************************************)
(* C15: there is no single-flight: requests with the same fingerprint can  *)
(* all miss and each make its own backend call and cache.set (the witness  *)
(* below).  Whatever the interleaving, the store changes only when a       *)
(* cache.set settles, and then the entry under 'api:' + fingerprint of the *)
(* writing request is exactly what that call was given (its tags and its   *)
(* response body, as it was at the call or as it is now), whatever was     *)
(* there before, and every other entry is as it was: the last write wins.  *)
(***************************************************************************)
Settles(r) == cset[r].status = "pending" /\ cset'[r].status = "ok"

C15_LastWriteWins ==
  [][ /\ store' # store => \E r \in Reqs : Settles(r)
      /\ \A r \in Reqs :
           Settles(r) =>
             LET k == <<"api:">> \o loc[r].reqHash IN
             /\ k \in DOMAIN store'
             /\ store'[k].tags = loc[r].tagsArray
             /\ store'[k].value \in
                  { WithProcessedHits(hist[r].backend.body, hist[r].result),
                    loc[r].resBody }
             /\ \A j \in DOMAIN store' \ {k} : j \in DOMAIN store /\ store'[j] = store[j]
    ]_vars

\* Witness of C15: two requests with the same fingerprint both missed, both
\* called the backend and both wrote; the entry is what the second in the
\* store wrote over a different value of the first.
C15_Witness ==
  \E a, b \in Reqs :
    /\ a # b /\ loc[a].reqHash = loc[b].reqHash
    /\ hist[a].get = "miss" /\ hist[b].get = "miss"
    /\ calls[a].backend = 1 /\ calls[b].backend = 1
    /\ cset[a].status = "ok" /\ cset[b].status = "ok"
    /\ cset[a].value # cset[b].value
    /\ store[cset[b].key].value = cset[b].value

(***************************************************************************)
(* C16 as claimed: the attribute lookup is made at most once per request,  *)
(* and exactly when the entity type is product, the processor resolved and *)
(* the backend response had aggregations; the response of a request has    *)
(* the attribute_metadata field exactly in that case; for another entity   *)
(* type the attribute service is never called.                             *)
(***************************************************************************)
EnrichmentCase(r) ==
  /\ loc[r].entityType = <<"product">>
  /\ hist[r].process = "ok"
  /\ Has(hist[r].backend.body, "aggregations")

EnrichedOnce(r) ==
  /\ calls[r].attr <= 1
  /\ calls[r].attr = 1 <=> EnrichmentCase(r)
  /\ loc[r].entityType # <<"product">> => calls[r].attr = 0

C16_MetadataOnlyWhenEnriched ==
  \A r \in Reqs :
    /\ EnrichedOnce(r)
    /\ res[r].sent >= 1 =>
         (Has(res[r].body, "attribute_metadata") <=> EnrichmentCase(r))

(***************************************************************************)
(* C16: the attribute lookup is made at most once per request, and exactly *)
(* when the entity type is product, the processor resolved and the backend *)
(* response had aggregations; a response that was not served from the      *)
(* cache has the attribute_metadata field exactly in that case; for        *)
(* another entity type the attribute service is never called.              *)
(***************************************************************************)
C16_EnrichedExactlyOnProductAggregations ==
  \A r \in Reqs :
    /\ EnrichedOnce(r)
    /\ res[r].sent >= 1 /\ hist[r].get # "hit" =>
         (Has(res[r].body, "attribute_metadata") <=> EnrichmentCase(r))

\* Witness of C16: a product request with aggregations was enriched and
\* answered with the metadata, and a request for another entity type whose
\* backend response had aggregations too was answered without a lookup.
C16_Witness ==
  \E a, b \in Reqs :
    /\ EnrichmentCase(a) /\ calls[a].attr = 1 /\ res[a].sent = 1
    /\ Has(res[a].body, "attribute_metadata")
    /\ loc[b].entityType = <<"category">> /\ hist[b].process = "ok"
    /\ Has(hist[b].backend.body, "aggregations")
    /\ calls[b].attr = 0 /\ res[b].sent = 1 /\ ~Has(res[b].body, "attribute_metadata")

(***************************************************************************)
(* C17: the parameter of the attribute lookup has one entry for each       *)
(* attribute code (the aggregation name without the agg_terms_ or          *)
(* agg_range_ prefix and without the _options suffix) of an aggregation    *)
(* with buckets, and the entry of a code is the union, without duplicates, *)
(* of the bucket keys of all the aggregations with buckets that have this  *)
(* code; an aggregation with no buckets gives no code.                     *)
(***************************************************************************)
C17_MergeIsUnionPerCode ==
  attributeListParam # Undefined =>
    LET live == {i \in DOMAIN aggregations : aggregations[i][2].buckets # <<>>}
        codes == {AttributeCode(aggregations[i][1]) : i \in live}
        Keys(code) ==
          UNION { {aggregations[i][2].buckets[j].key : j \in DOMAIN aggregations[i][2].buckets} :
                  i \in {i \in live : AttributeCode(aggregations[i][1]) = code} }
        param == attributeListParam.param
    IN /\ {param[i][1] : i \in DOMAIN param} = codes
       /\ Len(param) = Cardinality(codes)
       /\ \A i \in DOMAIN param :
            LET options == param[i][2] IN
            /\ {options[j] : j \in DOMAIN options} = Keys(param[i][1])
            /\ Len(options) = Cardinality(Keys(param[i][1]))

\* Witness of C17: agg_terms_color with red and blue, agg_terms_color_options
\* with blue and green and agg_range_price without buckets gave color with
\* red, blue and green, and nothing for price.
C17_Witness ==
  /\ aggregations =
       << <<(<<"agg_terms_", "color">>), [buckets |-> <<[key |-> "red"], [key |-> "blue"]>>]>>,
          <<(<<"agg_terms_", "color", "_options">>),
            [buckets |-> <<[key |-> "blue"], [key |-> "green"]>>]>>,
          <<(<<"agg_range_", "price">>), [buckets |-> <<>>]>> >>
  /\ attributeListParam = [param |-> << <<(<<"color">>), <<"red", "blue", "green">>>> >>]

(***************************************************************************)
(* C18: a request for an entity type that has no processor of its own is   *)
(* processed by the default processor: the missing processor causes no     *)
(* error and does not leave the request unanswered (once the backend has   *)
(* answered with a hit list the processor is called, and once it has       *)
(* resolved the response is sent).                                         *)
(***************************************************************************)
C18_FallsBackToDefault ==
  \A r \in Reqs :
    /\ hist[r].backend # Undefined /\ HasHitList(hist[r].backend.body)
    /\ loc[r].entityType \notin {<<"product">>, <<"default">>}
    => /\ hist[r].processor = [adapter |-> "default"]
       /\ calls[r].process = 1
       /\ outcome[r].kind = "returned"
       /\ "process" \notin errlog[r] <=> hist[r].process # "failed"
       /\ hist[r].process = "ok" =>
            /\ res[r].sent = 1 /\ res[r].status = 200
            /\ hist[r].result \in { hist[r].backend.body.hits.hits,
                                    Visible(hist[r].backend.body.hits.hits) }

\* Witness of C18: a category request, for which no processor is registered,
\* was processed by the default processor and answered.
C18_Witness ==
  \E r \in Reqs :
    /\ loc[r].entityType = <<"category">>
    /\ hist[r].processor = [adapter |-> "default"]
    /\ hist[r].process = "ok" /\ res[r].sent = 1

(***************************************************************************)
(* C19: a response served from the cache to a product request was made by  *)
(* a processor run for the group identifier of the requesting client: all  *)
(* its items are personalised for the requester's own group.               *)
(***************************************************************************)
ItemsOf(b) ==
  IF Flattened(b) THEN b.hits ELSE [i \in DOMAIN b.hits.hits |-> b.hits.hits[i]._source]

C19_HitIsForOwnGroup ==
  \A r \in Reqs :
    hist[r].get = "hit" /\ loc[r].entityType = <<"product">> /\ res[r].sent >= 1 =>
      \A i \in DOMAIN ItemsOf(res[r].body) :
        ItemsOf(res[r].body)[i].price_group = loc[r].groupId

(***************************************************************************)
(* C20: under fairness, every request that passed validation ends, and     *)
(* when the cache read, the backend call, the processor and the attribute  *)
(* lookup made for it have all returned without failure it has ended with  *)
(* its response sent; no request is ever sent more than one response.      *)
(***************************************************************************)
NoFailure(r) ==
  /\ hist[r].get # "rejected"
  /\ ~BackendFailed(r)
  /\ hist[r].process # "failed"
  /\ hist[r].attr # "failed"

Responded(r) == pc[r] = "end" /\ res[r].sent = 1

C20_EveryRequestIsAnswered ==
  \A r \in Reqs :
    /\ Normalized(r) ~> (pc[r] = "end" /\ (NoFailure(r) => Responded(r)))
    /\ [](res[r].sent <= 1)

\* Witness of C20: a request went through the cache read, the backend call,
\* the processor and the attribute lookup, none failed, and it was answered.
C20_Witness ==
  \E r \in Reqs :
    /\ Normalized(r) /\ NoFailure(r) /\ Responded(r)
    /\ hist[r].get = "miss" /\ hist[r].process = "ok" /\ hist[r].attr = "ok"

====
